---- MODULE Spec2Model ----
(***************************************************************************)
(* A model of py_mstr.py: the Attribute/Metric singleton registry, the     *)
(* Report session (its header, attribute, metric and value caches), the    *)
(* prompt-answer formatters and the report result parser.                  *)
(*                                                                         *)
(* Conventions.                                                            *)
(*  - A Python object is named by its class, its guid and how many objects *)
(*    of that class and guid were constructed before it; two references    *)
(*    are the same instance iff they are equal.                            *)
(*  - A Python string built by concatenation is a sequence of tokens, ''   *)
(*    is << >> and + is \o.  Texts read from a response are single tokens. *)
(*  - None is the token "None" where a text may be None, and the empty     *)
(*    sequence where a list may be None (Some(x) is <<x>>).                *)
(*  - pudb.set_trace() in _format_value_prompts (line 354) stops in a      *)
(*    debugger and changes no program state once continued: set_trace is   *)
(*    the identity.                                                        *)
(***************************************************************************)
EXTENDS Integers, Sequences, FiniteSets, TLC

\* Bounds of the model.
MaxCols == 2        \* columns of the report definition on the service
MaxRows == 1        \* data rows of the report on the service
MaxPrompts == 1     \* prompts in a getPrompts response
MaxAnswers == 2     \* value prompt answers passed to execute
MaxElems == 2       \* element prompts passed to execute
MaxVals == 2        \* values of one element prompt
MaxBoth == 1        \* answers of each kind when both kinds are passed

\* Program constants: the defaults of execute's max_rows and max_cols.
DefaultMaxRows == 100000
DefaultMaxCols == 10

None == "None"
Some(x) == <<x>>

Guids == {"g1", "g2"}
Names == {"Region", "Renamed"}
Kinds == {"Attribute", "Metric"}

SeqUpTo(S, n) == UNION {[1..k -> S] : k \in 0..n}
Range(s) == {s[i] : i \in DOMAIN s}
Distinct(s) == \A i, j \in DOMAIN s : s[i] = s[j] => i = j
Min(a, b) == IF a < b THEN a ELSE b

VARIABLES
  heap,                 \* every Attribute and Metric object ever constructed
  Attribute_instances,  \* Attribute._instances: guid -> object (0: no key)
  Metric_instances,     \* Metric._instances
  _headers, _attributes, _metrics, _values,   \* the Report's fields
  outcome,              \* what the last call returned or raised
  reqs,                 \* the requests the last call handed to _request
  executed,             \* execute() was called on the Report
  succeeded,            \* some execute() returned normally
  report,               \* the report's definition on the service
  given                 \* arguments of the pending execute call, if drawn up front

vars == <<heap, Attribute_instances, Metric_instances, _headers, _attributes,
          _metrics, _values, outcome, reqs, executed, succeeded, report, given>>

(***************************************************************************)
(* Singleton.__call__ and the two classes that use it.                     *)
(***************************************************************************)
Registry == [A |-> Attribute_instances, M |-> Metric_instances, heap |-> heap]

\* The n-th object of class `kind` constructed with `guid`.
Obj(kind, guid, n) == [kind |-> kind, guid |-> guid, n |-> n]
NoObj == Obj("NoneType", "", 0)
Constructed(hp, kind, guid) == {o \in hp : o.kind = kind /\ o.guid = guid}
New(hp, kind, guid, name) ==
  [kind |-> kind, guid |-> guid, n |-> Cardinality(Constructed(hp, kind, guid)) + 1,
   name |-> name]
Ref(o) == Obj(o.kind, o.guid, o.n)
NameOf(hp, ref) == (CHOOSE o \in hp : Ref(o) = ref).name

\* A broken metaclass that constructs on every call.
SingletonCallAlways(instances, hp, kind, guid, name) ==
  LET o == New(hp, kind, guid, name)
  IN [instances |-> [instances EXCEPT ![guid] = o.n], heap |-> hp \cup {o},
      obj |-> Ref(o)]

\* instances: cls._instances, guid -> n of the stored object (0: no such key).
SingletonCall(instances, hp, kind, guid, name) ==
  IF instances[guid] = 0
  THEN LET o == New(hp, kind, guid, name)
       IN [instances |-> [instances EXCEPT ![guid] = o.n], heap |-> hp \cup {o},
           obj |-> Ref(o)]
  ELSE [instances |-> instances, heap |-> hp, obj |-> Obj(kind, guid, instances[guid])]

Attribute(reg, guid, name) ==
  LET c == SingletonCall(reg.A, reg.heap, "Attribute", guid, name)
  IN [reg |-> [A |-> c.instances, M |-> reg.M, heap |-> c.heap], obj |-> c.obj]

Metric(reg, guid, name) ==
  LET c == SingletonCall(reg.M, reg.heap, "Metric", guid, name)
  IN [reg |-> [A |-> reg.A, M |-> c.instances, heap |-> c.heap], obj |-> c.obj]

SetRegistry(reg) ==
  /\ heap' = reg.heap
  /\ Attribute_instances' = reg.A
  /\ Metric_instances' = reg.M

(***************************************************************************)
(* Results of a call: exc is "ok" or the name of the exception raised.     *)
(***************************************************************************)
Ok(v) == [exc |-> "ok", msg |-> << >>, val |-> v]
Raise(e, m) == [exc |-> e, msg |-> m, val |-> << >>]

\* dict.update: the keys of e win.
DictUpdate(d, e) ==
  [k \in DOMAIN d \cup DOMAIN e |-> IF k \in DOMAIN e THEN e[k] ELSE d[k]]
EmptyDict == << >>

BASE_PARAMS == [taskEnv |-> "xml", taskContentType |-> "xml"]

\* MstrClient._request: the arguments as sent, BASE_PARAMS merged in.
Request(arguments) == DictUpdate(arguments, BASE_PARAMS)

\* Report.__init__: self._args.
ReportArgs == [reportID |-> "report-id", sessionState |-> "session"]

(***************************************************************************)
(* Prompt answers.  A key of the answers is a Prompt or, by a caller's     *)
(* mistake, an object of another class (here an Attribute, which has a     *)
(* guid and no attribute field).  An answer is a str or None.              *)
(***************************************************************************)
Str(tokens) == [type |-> "str", val |-> tokens]
PyNone == [type |-> "NoneType", val |-> << >>]
Truthy(s) == s.type = "str" /\ s.val # << >>

ElemPrompt1 == [id |-> 1, type |-> "Prompt", guid |-> "p1", attribute |-> Some("g1")]
ElemPrompt2 == [id |-> 2, type |-> "Prompt", guid |-> "p2", attribute |-> Some("g2")]
PlainPrompt == [id |-> 3, type |-> "Prompt", guid |-> "p3", attribute |-> << >>]
NotAPrompt == [id |-> 4, type |-> "Attribute", guid |-> "g1", attribute |-> << >>]

\* prompt.attribute.guid raises AttributeError when the key has no attribute
\* field or the field is None.
HasAttributeGuid(p) == p.type = "Prompt" /\ p.attribute # << >>

\* A loop body that never writes the separator.
ValuePromptStepNoSeparator(i, prompt, s, result) ==
  IF Truthy(s) THEN Ok(result \o s.val)
  ELSE IF ~(s = Str(<< >>) /\ prompt.type = "Prompt")
  THEN Raise("MstrReportException",
             <<"Invalid syntax for value prompt answers. Must pass (Prompt, string) tuples">>)
  ELSE Ok(result)

\* One iteration of the loop of _format_value_prompts (lines 358-364).
ValuePromptStep(i, prompt, s, result) ==
  LET r == IF i > 1 THEN result \o <<"^">> ELSE result
  IN IF Truthy(s) THEN Ok(r \o s.val)
     ELSE IF ~(s = Str(<< >>) /\ prompt.type = "Prompt")
     THEN Raise("MstrReportException",
                <<"Invalid syntax for value prompt answers. Must pass (Prompt, string) tuples">>)
     ELSE Ok(r)

RECURSIVE ValuePromptLoop(_, _, _)
ValuePromptLoop(prompts, i, result) ==
  IF i > Len(prompts) THEN Ok(result)
  ELSE LET step == ValuePromptStep(i, prompts[i][1], prompts[i][2], result)
       IN IF step.exc # "ok" THEN step
          ELSE ValuePromptLoop(prompts, i + 1, step.val)

\* import pudb; pudb.set_trace() (line 354): the debugger stops the call and,
\* once continued, hands the program on with its state untouched.
set_trace(locals) == locals

_format_value_prompts(prompts) ==
  LET r == ValuePromptLoop(set_trace(prompts), 1, << >>)
  IN IF r.exc # "ok" THEN r ELSE Ok([valuePromptAnswers |-> r.val])

\* str.join
RECURSIVE Join(_, _)
Join(sep, values) ==
  IF values = << >> THEN << >>
  ELSE IF Len(values) = 1 THEN <<values[1]>>
  ELSE <<values[1]>> \o sep \o Join(sep, Tail(values))

\* The segment without the leading guid, as the format "looks like" it should be.
ElementSegmentNoLead(guid, values) ==
  IF values # << >>
  THEN <<guid, ":">> \o Join(<<";", guid, ":">>, values)
  ELSE <<guid, ";">>

\* What one prompt adds to the result of _format_element_prompts (lines 372-377).
ElementSegment(guid, values) ==
  IF values # << >>
  THEN <<guid, ";", guid, ":">> \o Join(<<";", guid, ":">>, values)
  ELSE <<guid, ";">>

RECURSIVE ElementPromptLoop(_, _, _)
ElementPromptLoop(prompts, i, result) ==
  IF i > Len(prompts) THEN Ok(result)
  ELSE LET prompt == prompts[i][1]
           values == prompts[i][2]
           r == IF result # << >> THEN result \o <<",">> ELSE result
       IN IF ~HasAttributeGuid(prompt)
          THEN Raise("AttributeError", <<"attribute">>)
          ELSE ElementPromptLoop(prompts, i + 1,
                                 r \o ElementSegment(prompt.attribute[1], values))

\* prompts: the dictionary's items in the order iteritems() yields them.
_format_element_prompts(prompts) ==
  LET r == ElementPromptLoop(prompts, 1, << >>)
  IN IF r.exc # "ok" THEN r ELSE Ok([elementsPromptAnswers |-> r.val])

RECURSIVE XmlPromptLoop(_, _, _)
XmlPromptLoop(v_prompts, i, result) ==
  IF i > Len(v_prompts) THEN Ok(result)
  ELSE LET p == v_prompts[i][1]
           s == v_prompts[i][2]
       IN IF s.type # "str"
          THEN Raise("TypeError", <<"cannot concatenate 'str' and 'NoneType' objects">>)
          ELSE XmlPromptLoop(v_prompts, i + 1,
                 result \o <<"<pa pt='5' pin='0' did='", p.guid, "' tp='10'>">>
                        \o s.val \o <<"</pa>">>)

_format_xml_prompts(v_prompts, e_prompts) ==
  LET x == XmlPromptLoop(v_prompts, 1, <<"<rsl>">>)
      d == _format_element_prompts(e_prompts)
  IN IF x.exc # "ok" THEN x
     ELSE IF d.exc # "ok" THEN d
     ELSE Ok(DictUpdate(d.val, [promptsAnswerXML |-> x.val \o <<"</rsl>">>]))

\* A list or dict argument is "supplied" when it is neither None nor empty.
Supplied(opt) == opt # << >> /\ opt[1] # << >>

\* A dispatch that forgets the element answers when both kinds are passed.
PromptFieldsValueFirst(value_prompt_answers, element_prompt_answers) ==
  IF Supplied(value_prompt_answers)
  THEN _format_value_prompts(value_prompt_answers[1])
  ELSE IF Supplied(element_prompt_answers)
  THEN _format_element_prompts(element_prompt_answers[1])
  ELSE Ok(EmptyDict)

\* execute, lines 332-338: the prompt-answer fields of the request.
PromptFields(value_prompt_answers, element_prompt_answers) ==
  IF Supplied(value_prompt_answers) /\ Supplied(element_prompt_answers)
  THEN _format_xml_prompts(value_prompt_answers[1], element_prompt_answers[1])
  ELSE IF Supplied(value_prompt_answers)
  THEN _format_value_prompts(value_prompt_answers[1])
  ELSE IF Supplied(element_prompt_answers)
  THEN _format_element_prompts(element_prompt_answers[1])
  ELSE Ok(EmptyDict)

\* execute, lines 323-331 and 339: the other fields.
ExecuteArguments(w) ==
  [taskId |-> "reportExecute", startRow |-> w.start_row, startCol |-> w.start_col,
   maxRows |-> w.max_rows, maxCols |-> w.max_cols,
   styleName |-> "ReportDataVisualizationXMLStyle", resultFlags |-> "393216"]

(***************************************************************************)
(* The service.  A Report is bound to one report id, so the service holds  *)
(* one report definition: its columns (at least one, no object twice) and  *)
(* its number of data rows.  The                                           *)
(* response to reportExecute is the window of it the request asks for; the *)
(* text of a cell names its place in the report.                           *)
(***************************************************************************)
CatalogName(kind) == IF kind = "Attribute" THEN "Region" ELSE "Sales"
ColSpecs ==
  {[kind |-> "Attribute", guid |-> g, name |-> CatalogName("Attribute")] : g \in Guids}
  \cup {[kind |-> "Metric", guid |-> "g1", name |-> CatalogName("Metric")]}
Reports ==
  {[cols |-> c, nrows |-> n] :
     c \in {x \in SeqUpTo(ColSpecs, MaxCols) : x # << >> /\ Distinct(x)},
     n \in 0..MaxRows}

CellText(r, c) == <<"cell", r, c>>

\* The parsed document of a reportExecute response: the text of its first
\* <error> (if any), its <headers> resolved against <objects>, its <r> rows.
ExecuteResponse(rep, w, err) ==
  LET last == Min(Len(rep.cols), w.start_col + w.max_cols)
      cols == SubSeq(rep.cols, w.start_col + 1, last)
      lastRow == Min(rep.nrows, w.start_row + w.max_rows)
      nr == IF lastRow > w.start_row THEN lastRow - w.start_row ELSE 0
  IN [error |-> err,
      headers |-> IF err = << >> THEN cols ELSE << >>,
      rows |-> IF err = << >>
               THEN [i \in 1..nr |->
                      [j \in 1..Len(cols) |-> CellText(w.start_row + i, w.start_col + j)]]
               ELSE << >>]

ErrorTexts == {None, "bad report"}

(***************************************************************************)
(* Report._report_errors, _get_headers and _parse_report.                  *)
(***************************************************************************)
_report_errors(d) ==
  IF d.error # << >>
  THEN IF d.error[1] = None
       THEN Raise("TypeError", <<"cannot concatenate 'str' and 'NoneType' objects">>)
       ELSE Raise("MstrReportException",
                  <<"There was an error running the report.",
                    "Microstrategy error message: ", d.error[1]>>)
  ELSE Ok(FALSE)

\* A resolver that forgets to list the metrics.
HeaderStepMetricNotListed(st, col) ==
  IF col.kind = "Attribute"
  THEN LET a == Attribute(st.reg, col.guid, col.name)
       IN [reg |-> a.reg, headers |-> Append(st.headers, a.obj),
           attributes |-> Append(st.attributes, a.obj), metrics |-> st.metrics]
  ELSE LET m == Metric(st.reg, col.guid, col.name)
       IN [reg |-> m.reg, headers |-> Append(st.headers, m.obj),
           attributes |-> st.attributes, metrics |-> st.metrics]

\* One iteration of the loop of _get_headers (lines 416-424).
HeaderStep(st, col) ==
  IF col.kind = "Attribute"
  THEN LET a == Attribute(st.reg, col.guid, col.name)
       IN [reg |-> a.reg, headers |-> Append(st.headers, a.obj),
           attributes |-> Append(st.attributes, a.obj), metrics |-> st.metrics]
  ELSE LET m == Metric(st.reg, col.guid, col.name)
       IN [reg |-> m.reg, headers |-> Append(st.headers, m.obj),
           attributes |-> st.attributes, metrics |-> Append(st.metrics, m.obj)]

RECURSIVE _get_headers(_, _, _)
_get_headers(st, cols, i) ==
  IF i > Len(cols) THEN st ELSE _get_headers(HeaderStep(st, cols[i]), cols, i + 1)

\* The nested comprehension of _parse_report (lines 389-390):
\* self._headers[index] raises IndexError past the end of the list.
RowMatrix(headers, rows) ==
  IF \E i \in DOMAIN rows : Len(rows[i]) > Len(headers)
  THEN Raise("IndexError", <<"list index out of range">>)
  ELSE Ok([i \in DOMAIN rows |->
            [j \in DOMAIN rows[i] |-> <<headers[j], rows[i][j]>>]])

\* _parse_report, lines 384-385.
ResolveHeaders(st, d) ==
  IF st.headers = << >> THEN _get_headers(st, d.headers, 1) ELSE st

\* st: the registry and the Report's three lists.  The result carries them as
\* the call leaves them and what the call returns or raises.
_parse_report(st, d) ==
  LET e == _report_errors(d)
  IN IF e.exc # "ok" THEN [st |-> st, res |-> e]
     ELSE LET st2 == ResolveHeaders(st, d)
          IN [st |-> st2, res |-> RowMatrix(st2.headers, d.rows)]

SessionState ==
  [reg |-> Registry, headers |-> _headers, attributes |-> _attributes,
   metrics |-> _metrics]

SetSession(st) ==
  /\ SetRegistry(st.reg)
  /\ _headers' = st.headers
  /\ _attributes' = st.attributes
  /\ _metrics' = st.metrics

Result(op, r, ret) == [op |-> op, exc |-> r.exc, msg |-> r.msg, ret |-> ret]

(***************************************************************************)
(* The operations.                                                         *)
(***************************************************************************)
Window(r, c, m) ==
  [start_row |-> r, start_col |-> c, max_rows |-> DefaultMaxRows, max_cols |-> m]
Windows ==
  {Window(0, c, m) : c \in {0, 1}, m \in {1, DefaultMaxCols}}
  \cup {Window(1, 0, DefaultMaxCols)}

\* Report.execute.  err: the text of the response's <error>, if it has one.
Execute(w, value_prompt_answers, element_prompt_answers, err) ==
  LET f == PromptFields(value_prompt_answers, element_prompt_answers)
  IN IF f.exc # "ok"
     THEN /\ outcome' = Result("execute", f, << >>)
          /\ reqs' = << >>
          /\ executed' = TRUE
          /\ UNCHANGED <<heap, Attribute_instances, Metric_instances, _headers,
                         _attributes, _metrics, _values, succeeded, report>>
     ELSE LET arguments == DictUpdate(DictUpdate(ExecuteArguments(w), f.val), ReportArgs)
              response == ExecuteResponse(report, w, err)
              p == _parse_report(SessionState, response)
          IN /\ reqs' = <<Request(arguments)>>
             /\ SetSession(p.st)
             /\ _values' = IF p.res.exc = "ok" THEN Some(p.res.val) ELSE _values
             /\ outcome' = Result("execute", p.res, << >>)
             /\ executed' = TRUE
             /\ succeeded' = (succeeded \/ p.res.exc = "ok")
             /\ UNCHANGED report

\* The comprehension of _parse_attributes: one Attribute(...) per <a>.
RECURSIVE InternAttributes(_, _, _, _)
InternAttributes(reg, forms, i, objs) ==
  IF i > Len(forms) THEN [reg |-> reg, objs |-> objs]
  ELSE LET a == Attribute(reg, forms[i].guid, forms[i].name)
       IN InternAttributes(a.reg, forms, i + 1, Append(objs, a.obj))

_parse_attributes(reg, attributes, forms) == InternAttributes(reg, forms, 1, << >>)

IsAttribute(col) == col.kind = "Attribute"

\* The <a> elements of a browseAttributeForms response: the report's
\* attributes, or none when the service answers with a failure document.
AttributeForms(rep, ok) == IF ok THEN SelectSeq(rep.cols, IsAttribute) ELSE << >>

\* A get_attributes that, like the other accessors, raises on an empty cache.
GetAttributesRaising(ok) ==
  /\ outcome' = IF _attributes # << >>
                THEN Result("get_attributes", Ok(<< >>), _attributes)
                ELSE Result("get_attributes",
                            Raise("MstrReportException",
                                  <<"Execute a report before viewing the attributes">>),
                            << >>)
  /\ reqs' = << >>
  /\ UNCHANGED <<heap, Attribute_instances, Metric_instances, _headers,
                 _attributes, _metrics, _values, executed, succeeded, report>>

\* Report.get_attributes.
GetAttributes(ok) ==
  IF _attributes # << >>
  THEN /\ outcome' = Result("get_attributes", Ok(<< >>), _attributes)
       /\ reqs' = << >>
       /\ UNCHANGED <<heap, Attribute_instances, Metric_instances, _headers,
                      _attributes, _metrics, _values, executed, succeeded, report>>
  ELSE LET arguments == DictUpdate([taskId |-> "browseAttributeForms", contentType |-> 3],
                                   ReportArgs)
           p == _parse_attributes(Registry, _attributes, AttributeForms(report, ok))
       IN /\ reqs' = <<Request(arguments)>>
          /\ SetRegistry(p.reg)
          /\ _attributes' = p.objs
          /\ outcome' = Result("get_attributes", Ok(<< >>), p.objs)
          /\ UNCHANGED <<_headers, _metrics, _values, executed, succeeded, report>>

\* The <orgn> of a prompt of a getPrompts response: absent, or an attribute,
\* under the name the report shows it with or under another one.
Origins(names) == {<< >>} \cup {<<[guid |-> g, name |-> n]>> : g \in Guids, n \in names}

\* _parse_prompts: the attribute of each Prompt built (NoObj: None).
RECURSIVE _parse_prompts(_, _, _, _)
_parse_prompts(reg, prompts, i, objs) ==
  IF i > Len(prompts) THEN [reg |-> reg, objs |-> objs]
  ELSE IF prompts[i] = << >>
  THEN _parse_prompts(reg, prompts, i + 1, Append(objs, NoObj))
  ELSE LET a == Attribute(reg, prompts[i][1].guid, prompts[i][1].name)
       IN _parse_prompts(a.reg, prompts, i + 1, Append(objs, a.obj))

\* Report.get_prompts.  hasMsg: the first response carries a msg id.
GetPrompts(hasMsg, prompts) ==
  LET first == Request(DictUpdate([taskId |-> "reportExecute"], ReportArgs))
      second == Request([taskId |-> "getPrompts", objectType |-> "3",
                         msgID |-> "msg-id", sessionState |-> "session"])
  IN IF ~hasMsg
     THEN /\ reqs' = <<first>>
          /\ outcome' = Result("get_prompts",
                Raise("MstrReportException",
                      <<"Error retrieving msgID for report. Most",
                        " likely the report does not have any prompts.">>), << >>)
          /\ UNCHANGED <<heap, Attribute_instances, Metric_instances, _headers,
                         _attributes, _metrics, _values, executed, succeeded, report>>
     ELSE LET p == _parse_prompts(Registry, prompts, 1, << >>)
          IN /\ reqs' = <<first, second>>
             /\ SetRegistry(p.reg)
             /\ outcome' = Result("get_prompts", Ok(<< >>), p.objs)
             /\ UNCHANGED <<_headers, _attributes, _metrics, _values, executed,
                            succeeded, report>>

\* MstrClient.get_attribute.  name: the <n> of the response.
GetAttribute(attribute_id, name) ==
  IF attribute_id = ""
  THEN /\ outcome' = Result("get_attribute",
                            Raise("MstrClientException",
                                  <<"You must provide an attribute id">>), << >>)
       /\ reqs' = << >>
       /\ UNCHANGED <<heap, Attribute_instances, Metric_instances, _headers,
                      _attributes, _metrics, _values, executed, succeeded, report>>
  ELSE LET a == Attribute(Registry, attribute_id, name)
       IN /\ reqs' = <<Request([taskId |-> "getAttributeForms",
                                attributeID |-> attribute_id,
                                sessionState |-> "session"])>>
          /\ SetRegistry(a.reg)
          /\ outcome' = Result("get_attribute", Ok(<< >>), <<a.obj>>)
          /\ UNCHANGED <<_headers, _attributes, _metrics, _values, executed,
                         succeeded, report>>

\* An accessor: returns the cache when `has`, raises otherwise; sends nothing.
Accessor(op, has, cache, message) ==
  /\ outcome' = IF has THEN Result(op, Ok(<< >>), cache)
                ELSE Result(op, Raise("MstrReportException", <<message>>), << >>)
  /\ reqs' = << >>
  /\ UNCHANGED <<heap, Attribute_instances, Metric_instances, _headers,
                 _attributes, _metrics, _values, executed, succeeded, report>>

GetHeaders ==
  Accessor("get_headers", _headers # << >>, _headers,
           "Execute a report before viewing the headers")

GetValues ==
  Accessor("get_values", _values # << >>, _values,
           "Execute a report before viewing the rows")

GetMetrics ==
  Accessor("get_metrics", _metrics # << >>, _metrics,
           "Execute a report before viewing the metrics")

(***************************************************************************)
(* The session: any sequence of calls on one Report and its client.        *)
(***************************************************************************)
NoCall == [op |-> "new", exc |-> "ok", msg |-> << >>, ret |-> << >>]

Init ==
  /\ heap = {}
  /\ Attribute_instances = [g \in Guids |-> 0]
  /\ Metric_instances = [g \in Guids |-> 0]
  /\ _headers = << >>
  /\ _attributes = << >>
  /\ _metrics = << >>
  /\ _values = << >>
  /\ outcome = NoCall
  /\ reqs = << >>
  /\ executed = FALSE
  /\ succeeded = FALSE
  /\ report \in Reports
  /\ given = << >>

ExecuteCall ==
  /\ \E w \in Windows, err \in {<< >>} \cup {<<t>> : t \in ErrorTexts} :
       Execute(w, << >>, << >>, err)
  /\ UNCHANGED given

GetAttributesCall == (\E ok \in BOOLEAN : GetAttributes(ok)) /\ UNCHANGED given

GetPromptsCall ==
  /\ \/ GetPrompts(FALSE, << >>)
     \/ \E prompts \in SeqUpTo(Origins({CatalogName("Attribute")}), MaxPrompts) :
          GetPrompts(TRUE, prompts)
  /\ UNCHANGED given

GetHeadersCall == GetHeaders /\ UNCHANGED given
GetValuesCall == GetValues /\ UNCHANGED given
GetMetricsCall == GetMetrics /\ UNCHANGED given

Next ==
  \/ ExecuteCall
  \/ GetAttributesCall
  \/ GetPromptsCall
  \/ GetHeadersCall
  \/ GetValuesCall
  \/ GetMetricsCall

Spec == Init /\ [][Next]_vars

(***************************************************************************)
(* The registry: every place that constructs a descriptor, on the report   *)
(* with every column, the service free to name an attribute differently    *)
(* from one response to the next.                                          *)
(***************************************************************************)
InitRegistry == Init /\ Range(report.cols) \cap {c \in ColSpecs : c.kind = "Metric"} # {}
                     /\ Len(report.cols) = MaxCols /\ report.nrows = MaxRows

GetPromptsRenamedCall ==
  /\ \E prompts \in SeqUpTo(Origins(Names), MaxPrompts) : GetPrompts(TRUE, prompts)
  /\ UNCHANGED given

GetAttributeCall ==
  /\ \E id \in Guids \cup {""}, name \in Names : GetAttribute(id, name)
  /\ UNCHANGED given

NextRegistry ==
  \/ ExecuteCall
  \/ GetAttributesCall
  \/ GetPromptsRenamedCall
  \/ GetAttributeCall

SpecRegistry == InitRegistry /\ [][NextRegistry]_vars

(***************************************************************************)
(* The request formatter: one execute call on a fresh Report, its          *)
(* arguments drawn up front.                                               *)
(***************************************************************************)
Option(S) == {<< >>} \cup {<<x>> : x \in S}

Answers == {Str(<< >>), Str(<<"X">>), PyNone}
ValueKeys == {PlainPrompt, NotAPrompt}
ValueAnswerLists(n) == SeqUpTo(ValueKeys \X Answers, n)

ElemKeys == {ElemPrompt1, ElemPrompt2, PlainPrompt}
\* The value lists of an element prompt: "v1", "v2", ... up to MaxVals of
\* them, and one list out of order.
ElemValue(i) == "v" \o ToString(i)
ElemValueLists == {[i \in 1..k |-> ElemValue(i)] : k \in 0..MaxVals}
                  \cup {<<ElemValue(2), ElemValue(1)>>}
\* A dictionary, as the sequence of its items: no key twice.
ElementAnswerDicts(n) ==
  {d \in SeqUpTo(ElemKeys \X ElemValueLists, n) :
     \A i, j \in DOMAIN d : d[i][1] = d[j][1] => i = j}

FmtWindows == {Window(0, 0, DefaultMaxCols), Window(0, 1, 1)}

ExecuteArgs ==
  {[w |-> w, vpa |-> v, epa |-> e] :
     w \in FmtWindows, v \in Option(ValueAnswerLists(MaxAnswers)), e \in {<< >>, <<<< >>>>}}
  \cup {[w |-> w, vpa |-> v, epa |-> e] :
     w \in FmtWindows, v \in {<< >>, <<<< >>>>}, e \in Option(ElementAnswerDicts(MaxElems))}
  \cup {[w |-> w, vpa |-> v, epa |-> e] :
     w \in FmtWindows, v \in Option(ValueAnswerLists(MaxBoth)),
     e \in Option(ElementAnswerDicts(MaxBoth))}

InitFmt ==
  /\ heap = {}
  /\ Attribute_instances = [g \in Guids |-> 0]
  /\ Metric_instances = [g \in Guids |-> 0]
  /\ _headers = << >>
  /\ _attributes = << >>
  /\ _metrics = << >>
  /\ _values = << >>
  /\ outcome = NoCall
  /\ reqs = << >>
  /\ executed = FALSE
  /\ succeeded = FALSE
  /\ report = [cols |-> <<[kind |-> "Attribute", guid |-> "g1",
                           name |-> CatalogName("Attribute")]>>, nrows |-> 1]
  /\ given \in {<<a>> : a \in ExecuteArgs}

ExecuteGiven ==
  /\ given # << >>
  /\ \E err \in {<< >>, <<"bad report">>} :
       Execute(given[1].w, given[1].vpa, given[1].epa, err)
  /\ given' = given

NextFmt == ExecuteGiven

SpecFmt == InitFmt /\ [][NextFmt]_vars

(***************************************************************************)
(* Properties of the session (Spec).                                       *)
(***************************************************************************)
NoAnswers == << >>
ErrorChoices == {<< >>} \cup {<<t>> : t \in ErrorTexts}
Caches == <<_headers, _attributes, _metrics, _values>>

\* C1: an execute() whose response has an <error> raises MstrReportException
\* with the service's text in its message and leaves the four caches as they
\* were.
C1_ErrorRaisesReportError ==
  [][\A w \in Windows, t \in ErrorTexts :
       Execute(w, NoAnswers, NoAnswers, <<t>>) =>
         /\ outcome'.exc = "MstrReportException"
         /\ t \in Range(outcome'.msg)
         /\ UNCHANGED Caches]_vars

\* The part of C1 the code keeps: whatever an execute() with an <error> in its
\* response raises, the four caches are as they were.
C1_ErrorLeavesCaches ==
  [][\A w \in Windows, t \in ErrorTexts :
       Execute(w, NoAnswers, NoAnswers, <<t>>) =>
         outcome'.exc # "ok" /\ UNCHANGED Caches]_vars

CacheOf(op) ==
  IF op = "get_values" THEN _values
  ELSE IF op = "get_headers" THEN _headers
  ELSE _metrics

\* C2: get_values(), get_headers() and get_metrics() raise MstrReportException
\* before any execute() call, and once an execute() has succeeded each returns
\* its cache and sends no request.
C2_AccessorsAfterExecute ==
  outcome.op \in {"get_values", "get_headers", "get_metrics"} =>
    /\ ~executed => outcome.exc = "MstrReportException"
    /\ succeeded => /\ outcome.exc = "ok"
                    /\ outcome.ret = CacheOf(outcome.op)
                    /\ reqs = << >>

\* The first half of C2, which the code keeps.
C2_AccessorsBeforeExecute ==
  (outcome.op \in {"get_values", "get_headers", "get_metrics"} /\ ~executed) =>
    outcome.exc = "MstrReportException" /\ reqs = << >>

\* C3: a successful execute() overwrites cached_values with the rows of its own
\* response, and no execute() changes a header, attribute or metric cache that
\* is already populated.
C3_ExecuteKeepsPopulatedCaches ==
  [][\A w \in Windows, err \in ErrorChoices :
       Execute(w, NoAnswers, NoAnswers, err) =>
         /\ _headers # << >> => _headers' = _headers
         /\ _attributes # << >> => _attributes' = _attributes
         /\ _metrics # << >> => _metrics' = _metrics
         /\ outcome'.exc = "ok" =>
              /\ Len(_values'[1]) = Len(ExecuteResponse(report, w, err).rows)
              /\ \A i \in DOMAIN _values'[1] : \A j \in DOMAIN _values'[1][i] :
                   _values'[1][i][j][2] = ExecuteResponse(report, w, err).rows[i][j]]_vars

\* C9: after a successful execute() cached_values has one row per <r> of the
\* response, every row has as many pairs as cached_headers has entries, and
\* the j-th pair of a row is (cached_headers[j], text of the j-th cell).
C9_RowsMatchHeaders ==
  [][\A w \in Windows :
       (Execute(w, NoAnswers, NoAnswers, << >>) /\ outcome'.exc = "ok") =>
         LET rows == ExecuteResponse(report, w, << >>).rows
         IN /\ Len(_values'[1]) = Len(rows)
            /\ \A i \in DOMAIN rows :
                 /\ Len(_values'[1][i]) = Len(_headers')
                 /\ Len(rows[i]) = Len(_headers')
                 /\ \A j \in DOMAIN rows[i] :
                      _values'[1][i][j] = <<_headers'[j], rows[i][j]>>]_vars

IsAttributeObj(o) == o.kind = "Attribute"
IsMetricObj(o) == o.kind = "Metric"
IsSuffix(s, t) == Len(s) <= Len(t) /\ SubSeq(t, Len(t) - Len(s) + 1, Len(t)) = s

\* C10 as stated: cached_attributes and cached_metrics are exactly the
\* Attribute and the Metric descriptors of cached_headers, in header order and
\* without duplicates.
C10_HeadersPartitioned ==
  /\ _attributes = SelectSeq(_headers, IsAttributeObj)
  /\ _metrics = SelectSeq(_headers, IsMetricObj)
  /\ Distinct(_attributes) /\ Distinct(_metrics)
  /\ Len(_headers) = Len(_attributes) + Len(_metrics)

\* C10 amended: cached_metrics is exactly the Metric descriptors of
\* cached_headers in header order, and the Attribute descriptors of
\* cached_headers, in header order, are the end of cached_attributes.
C10_MetricsExactAttributesSuffix ==
  /\ _metrics = SelectSeq(_headers, IsMetricObj)
  /\ IsSuffix(SelectSeq(_headers, IsAttributeObj), _attributes)
  /\ Len(_headers) <= Len(_attributes) + Len(_metrics)

\* get_attributes() filled the attribute cache first and an execute() then put
\* the header's attributes behind it.
C10_Witness ==
  /\ _headers # << >>
  /\ _metrics # << >>
  /\ Len(_attributes) > Len(SelectSeq(_headers, IsAttributeObj))
  /\ SelectSeq(_headers, IsAttributeObj) # << >>

\* C5 as stated: get_attributes() returns the cache when it is not empty, and
\* with an empty cache and no execution so far it raises MstrReportException,
\* sends no request and changes no cache.
C5_GetAttributesRaisesUnexecuted ==
  [][outcome'.op = "get_attributes" =>
       IF _attributes # << >>
       THEN outcome'.exc = "ok" /\ outcome'.ret = _attributes
       ELSE ~executed => /\ outcome'.exc = "MstrReportException"
                         /\ reqs' = << >>
                         /\ UNCHANGED Caches]_vars

\* C5 amended: get_attributes() never raises.  With a non-empty cache it returns
\* the cache and sends nothing; with an empty cache, executed or not, it sends
\* one browseAttributeForms request, sets cached_attributes to the interned
\* Attribute of each <a> of the response, in order, and returns that list.  The
\* other caches stay as they were.
C5_GetAttributesFetches ==
  [][outcome'.op = "get_attributes" =>
       /\ outcome'.exc = "ok"
       /\ outcome'.ret = _attributes'
       /\ UNCHANGED <<_headers, _metrics, _values>>
       /\ IF _attributes # << >>
          THEN reqs' = << >> /\ _attributes' = _attributes
          ELSE /\ Len(reqs') = 1
               /\ reqs'[1].taskId = "browseAttributeForms"
               /\ reqs'[1].reportID = ReportArgs.reportID
               /\ \E ok \in BOOLEAN :
                    LET forms == AttributeForms(report, ok)
                    IN /\ Len(_attributes') = Len(forms)
                       /\ \A i \in DOMAIN forms :
                            /\ Attribute_instances'[forms[i].guid] # 0
                            /\ _attributes'[i] =
                                 Obj("Attribute", forms[i].guid,
                                     Attribute_instances'[forms[i].guid])]_vars

\* get_attributes() on a Report never executed fetched a non-empty list.
C5_Witness ==
  /\ outcome.op = "get_attributes"
  /\ outcome.exc = "ok"
  /\ ~executed
  /\ reqs # << >>
  /\ _attributes # << >>

(***************************************************************************)
(* Properties of the registry (SpecRegistry).                              *)
(***************************************************************************)
InstancesOf(kind) == IF kind = "Attribute" THEN Attribute_instances ELSE Metric_instances

\* C4: per class and guid at most one descriptor is ever constructed and the
\* class's table points at it; a table entry and its object, name included,
\* never change; a construction for a guid already in the table returns the
\* stored object, whatever name is passed, and one for a new guid stores an
\* object with the name passed; a construction of one class leaves the other
\* class's table alone.
C4_OneDescriptorPerGuid ==
  [][/\ \A k \in Kinds, g \in Guids :
          /\ Cardinality(Constructed(heap', k, g)) <= 1
          /\ Constructed(heap', k, g) # {} <=> InstancesOf(k)'[g] # 0
          /\ InstancesOf(k)'[g] # 0 =>
               Obj(k, g, InstancesOf(k)'[g]) \in {Ref(o) : o \in heap'}
          /\ InstancesOf(k)[g] # 0 => InstancesOf(k)'[g] = InstancesOf(k)[g]
     /\ heap \subseteq heap'
     /\ \A id \in Guids, name \in Names :
          GetAttribute(id, name) =>
            /\ outcome'.ret = <<Obj("Attribute", id, Attribute_instances'[id])>>
            /\ Metric_instances' = Metric_instances
            /\ IF Attribute_instances[id] # 0
               THEN /\ outcome'.ret = <<Obj("Attribute", id, Attribute_instances[id])>>
                    /\ NameOf(heap', outcome'.ret[1]) = NameOf(heap, outcome'.ret[1])
                    /\ heap' = heap
               ELSE NameOf(heap', outcome'.ret[1]) = name]_vars

\* The header of an executed report holds the Attribute first constructed
\* under another name (by get_attribute or for a prompt), the Metric of the
\* same guid exists beside it, and get_attribute has just returned that
\* Attribute again.
C4_Witness ==
  /\ \E o \in heap : /\ o.kind = "Attribute" /\ o.guid = "g1" /\ o.name = "Renamed"
                     /\ Ref(o) \in Range(_headers)
                     /\ outcome.op = "get_attribute"
                     /\ outcome.ret = <<Ref(o)>>
  /\ \E m \in heap : m.kind = "Metric" /\ m.guid = "g1" /\ Ref(m) \in Range(_headers)

(***************************************************************************)
(* Properties of the request formatter (SpecFmt).                          *)
(***************************************************************************)
PromptFieldNames == {"valuePromptAnswers", "elementsPromptAnswers", "promptsAnswerXML"}

\* C6: the request of an execute() carries promptsAnswerXML and
\* elementsPromptAnswers when answers of both kinds are passed, only
\* valuePromptAnswers when only value answers are, only elementsPromptAnswers
\* when only element answers are, and none of the three otherwise; it always
\* carries taskId, reportID, sessionState, the window, styleName and
\* resultFlags.  (Answers are "passed" when the argument holds at least one.)
C6_RequestFields ==
  (given # << >> /\ outcome.op = "execute" /\ reqs # << >>) =>
    LET r == reqs[1]
        v == Supplied(given[1].vpa)
        e == Supplied(given[1].epa)
    IN /\ Len(reqs) = 1
       /\ DOMAIN r \cap PromptFieldNames =
            IF v /\ e THEN {"promptsAnswerXML", "elementsPromptAnswers"}
            ELSE IF v THEN {"valuePromptAnswers"}
            ELSE IF e THEN {"elementsPromptAnswers"}
            ELSE {}
       /\ {"taskId", "reportID", "sessionState", "startRow", "startCol", "maxRows",
           "maxCols", "styleName", "resultFlags"} \subseteq DOMAIN r
       /\ r.taskId = "reportExecute"
       /\ r.reportID = ReportArgs.reportID
       /\ r.sessionState = ReportArgs.sessionState
       /\ r.startRow = given[1].w.start_row
       /\ r.startCol = given[1].w.start_col
       /\ r.maxRows = given[1].w.max_rows
       /\ r.maxCols = given[1].w.max_cols
       /\ r.styleName = "ReportDataVisualizationXMLStyle"
       /\ r.resultFlags = "393216"

\* A request went out with answers of both kinds.
C6_Witness ==
  /\ given # << >> /\ outcome.op = "execute" /\ reqs # << >>
  /\ Supplied(given[1].vpa) /\ Supplied(given[1].epa)
  /\ "promptsAnswerXML" \in DOMAIN reqs[1]

\* "G;G:v1;...;G:vn" written out value by value, "G;" for no value.
RECURSIVE C7_Values(_, _)
C7_Values(guid, values) ==
  IF values = << >> THEN << >>
  ELSE <<guid, ":", Head(values)>>
       \o (IF Len(values) > 1 THEN <<";">> ELSE << >>)
       \o C7_Values(guid, Tail(values))
C7_Segment(guid, values) == <<guid, ";">> \o C7_Values(guid, values)

RECURSIVE C7_Joined(_)
C7_Joined(prompts) ==
  IF prompts = << >> THEN << >>
  ELSE C7_Segment(prompts[1][1].attribute[1], prompts[1][2])
       \o (IF Len(prompts) > 1 THEN <<",">> ELSE << >>)
       \o C7_Joined(Tail(prompts))

\* C7: for element answers whose prompts all have an attribute, the
\* elementsPromptAnswers of the request is the prompts' segments joined by ","
\* with no comma before or after, the segment of a prompt with attribute guid G
\* being "G;G:v1;G:v2;...;G:vn" for values v1..vn and "G;" for no value.
C7_ElementAnswers ==
  (given # << >> /\ outcome.op = "execute" /\ Supplied(given[1].epa)
     /\ \A i \in DOMAIN given[1].epa[1] : HasAttributeGuid(given[1].epa[1][i][1])
     /\ reqs # << >>) =>
    LET s == reqs[1].elementsPromptAnswers
    IN /\ s = C7_Joined(given[1].epa[1])
       /\ s[1] # "," /\ s[Len(s)] # ","
       /\ Cardinality({i \in DOMAIN s : s[i] = ","}) = Len(given[1].epa[1]) - 1

\* Two prompts went out, one with the values ["v1", "v2"], one with none.
C7_Witness ==
  /\ given # << >> /\ outcome.op = "execute" /\ reqs # << >>
  /\ given[1].epa = <<<< <<ElemPrompt1, <<"v1", "v2">>>>, <<ElemPrompt2, << >>>> >>>>
  /\ reqs[1].elementsPromptAnswers =
       <<"g1", ";", "g1", ":", "v1", ";", "g1", ":", "v2", ",", "g2", ";">>

IsBlank(s) == s = Str(<< >>)

RECURSIVE C8_Joined(_)
C8_Joined(answers) ==
  IF answers = << >> THEN << >>
  ELSE answers[1][2].val
       \o (IF Len(answers) > 1 THEN <<"^">> ELSE << >>)
       \o C8_Joined(Tail(answers))

\* C8: with only value answers passed, a blank answer under a key that is not
\* a Prompt makes execute() raise MstrReportException before any request;
\* when every answer is a string and every blank one is under a Prompt, the
\* valuePromptAnswers of the request is the answers joined by "^" in order,
\* a blank contributing nothing, so n answers give n - 1 separators.
C8_ValueAnswers ==
  (given # << >> /\ outcome.op = "execute" /\ Supplied(given[1].vpa)
     /\ ~Supplied(given[1].epa)) =>
    LET a == given[1].vpa[1]
    IN /\ (\E i \in DOMAIN a : IsBlank(a[i][2]) /\ a[i][1].type # "Prompt") =>
            outcome.exc = "MstrReportException" /\ reqs = << >>
       /\ (\A i \in DOMAIN a :
             /\ a[i][2].type = "str"
             /\ IsBlank(a[i][2]) => a[i][1].type = "Prompt") =>
            /\ Len(reqs) = 1
            /\ reqs[1].valuePromptAnswers = C8_Joined(a)
            /\ Cardinality({i \in DOMAIN reqs[1].valuePromptAnswers :
                              reqs[1].valuePromptAnswers[i] = "^"}) = Len(a) - 1

\* [(p1, "X"), (p2, "")] with plain Prompts went out as "X^".
C8_Witness ==
  /\ given # << >> /\ outcome.op = "execute" /\ reqs # << >>
  /\ given[1].vpa = <<<< <<PlainPrompt, Str(<<"X">>)>>, <<PlainPrompt, Str(<< >>)>> >>>>
  /\ ~Supplied(given[1].epa)
  /\ reqs[1].valuePromptAnswers = <<"X", "^">>

====
